---- MODULE Spec2Model ----
(***************************************************************************)
(* Easy Git Switcher: the profile store of GitHubProfileManager            *)
(* (src/app.py, src/main.py) as a state machine.                           *)
(*                                                                         *)
(* The state is the in-memory mapping self.profiles, the keyring           *)
(* (namespace 'github': the index key 'usernames' and one JSON record per  *)
(* username) and what git holds (global user.name, user.email,             *)
(* credential.helper and the credentials stored for github.com).           *)
(* Every handler is one action; the functions it calls are operators on a  *)
(* "world" record that are composed in the order the code calls them.      *)
(*                                                                         *)
(* An optional value (a missing dict key, an unset git key, no keyring     *)
(* entry) is a sequence of length 0 or 1.  A profile's 'is_current' is     *)
(* only ever read with .get('is_current', False): a missing key is FALSE.  *)
(* 'avatar_url' is presentation only and is left out.                      *)
(***************************************************************************)
EXTENDS Integers, Sequences, FiniteSets, TLC

\* Number of GitHub accounts that exist.
MaxUsers == 2
\* Number of handler runs during which an external call (git, keyring,
\* network) may fail.
MaxFaultyOps == 1

\* Usernames in lexicographic order, as sorted() orders them.
AllUsers == <<"alice", "bob", "carol", "dave">>
Users == {AllUsers[i] : i \in 1..MaxUsers}
Rank(u) == CHOOSE i \in 1..Len(AllUsers) : AllUsers[i] = u

\* The OAuth token GitHub issues for each account.
AllTokens == <<"tok-a", "tok-b", "tok-c", "tok-d">>
TokenOf(u) == AllTokens[Rank(u)]
\* The secret git's credential store may hold for an account before the
\* program first runs.
AllSecrets == <<"pat-a", "pat-b", "pat-c", "pat-d">>
SecretOf(u) == AllSecrets[Rank(u)]

\* Display names and emails a user or GitHub may supply ("" is the empty string).
NameInputs == {"Dev"}
EmailInputs == {"", "dev@x"}
TagInputs == {"work"}
\* What GitHub's user endpoint may answer as name and email ('' for null).
GitHubInfos == {[name |-> "", email |-> ""], [name |-> "Dev", email |-> "dev@x"]}

Min(a, b) == IF a < b THEN a ELSE b

\* str.strip() on the strings of the model: the only ones with surrounding
\* whitespace are "Dev " and " ".
strip(s) == IF s = "Dev " THEN "Dev" ELSE IF s = " " THEN "" ELSE s

(***************************************************************************)
(* self.profiles: a dict in insertion order, here a sequence of records.   *)
(***************************************************************************)
Keys(P) == [i \in 1..Len(P) |-> P[i].user]
KeySet(P) == {P[i].user : i \in 1..Len(P)}
Has(P, u) == u \in KeySet(P)
Get(P, u) == P[CHOOSE i \in 1..Len(P) : P[i].user = u]
Remove(P, u) == SelectSeq(P, LAMBDA p : p.user # u)
Current(P) == {P[i].user : i \in {j \in 1..Len(P) : P[j].is_current}}

\* json.dumps(profile): the record stored under the username's key.
ToJson(p) ==
    [token |-> p.token, name |-> p.name, email |-> p.email, tag |-> p.tag,
     is_current |-> p.is_current]
\* A stored text that is not JSON: json.loads raises JSONDecodeError on it.
Garbled == [text |-> "{"]
\* json.loads(profile_data_str), keyed by the username it was read for.
FromJson(u, r) ==
    [user |-> u, token |-> r.token, name |-> r.name, email |-> r.email,
     tag |-> r.tag, is_current |-> r.is_current]

(***************************************************************************)
(* External calls.  A fault plan f says which external call fails while a  *)
(* handler runs: one git call site, the network, or the keyring from its   *)
(* (n+1)-th call on.                                                       *)
(***************************************************************************)
GitCalls ==
    {"fill", "reject_all", "cfg_name", "cfg_email", "cfg_helper", "approve",
     "reject_user", "unset_name", "unset_email", "unset_helper"}
NoFault == [kind |-> "none", call |-> "", n |-> 0]
FaultPlans ==
    {NoFault}
    \cup {[kind |-> "git", call |-> c, n |-> 0] : c \in GitCalls}
    \cup {[kind |-> "kr", call |-> "", n |-> k] : k \in 0..(2 * (MaxUsers + 1))}
    \cup {[kind |-> "net", call |-> "", n |-> 0]}

\* The world a handler starts in.
World(P, k, g, f) ==
    [profiles |-> P, kr |-> k, git |-> g, out |-> {},
     krLeft |-> IF f.kind = "kr" THEN f.n ELSE -1,
     gitFail |-> IF f.kind = "git" THEN f.call ELSE "",
     raised |-> FALSE, hit |-> FALSE]

\* The planned failure happened.
Hit(w) == [w EXCEPT !.hit = TRUE]

\* ErrorBoundary.handle_error: an error dialog.
handle_error(w) == [w EXCEPT !.out = @ \cup {"error"}]
Say(w, kind) == [w EXCEPT !.out = @ \cup {kind}]

\* How many of `want` consecutive keyring calls succeed.
Avail(w, want) == IF w.krLeft < 0 THEN want ELSE Min(w.krLeft, want)
Consume(w, k) == [w EXCEPT !.krLeft = IF @ < 0 THEN @ ELSE @ - k]

save_profiles(w) ==
    LET P == w.profiles
        want == 1 + Len(P)
        done == Avail(w, want)
        idx == IF done >= 1 THEN Keys(P) ELSE w.kr.usernames
        rec == [u \in Users |->
                  IF \E i \in 1..Len(P) : i <= done - 1 /\ P[i].user = u
                  THEN <<ToJson(Get(P, u))>>
                  ELSE w.kr.rec[u]]
        w1 == Consume([w EXCEPT !.kr = [usernames |-> idx, rec |-> rec]], done)
    IN  IF done < want THEN Hit(handle_error(w1)) ELSE w1

\* load_keyring_profiles without the try around json.loads: a record that
\* is not JSON makes the load raise.
load_keyring_profiles_strict(w) ==
    LET idx == w.kr.usernames
        want == 1 + Len(idx)
        raised == \/ Avail(w, want) < want
                  \/ \E i \in 1..Len(idx) : w.kr.rec[idx[i]] = <<Garbled>>
        listed == SelectSeq(idx, LAMBDA u : w.kr.rec[u] # <<>>)
    IN  [raised |-> raised,
         profiles |-> IF raised THEN <<>>
                      ELSE [i \in 1..Len(listed) |->
                              FromJson(listed[i], w.kr.rec[listed[i]][1])],
         w |-> IF raised THEN Hit(Consume(w, Avail(w, want)))
               ELSE Consume(w, want)]

\* A username of the index is skipped when it has no record or when its
\* record is not JSON.
load_keyring_profiles(w) ==
    LET idx == w.kr.usernames
        want == 1 + Len(idx)
        raised == Avail(w, want) < want
        listed == SelectSeq(idx, LAMBDA u : w.kr.rec[u] # <<>>
                                            /\ w.kr.rec[u][1] # Garbled)
    IN  [raised |-> raised,
         profiles |-> IF raised THEN <<>>
                      ELSE [i \in 1..Len(listed) |->
                              FromJson(listed[i], w.kr.rec[listed[i]][1])],
         w |-> IF raised THEN Hit(Consume(w, Avail(w, want)))
               ELSE Consume(w, want)]

\* git config --global user.name / user.email with check=True: either read
\* failing (the key is unset) gives ('', ''); the output is stripped.
get_git_user_info(w) ==
    IF w.git.name = <<>> \/ w.git.email = <<>>
    THEN [name |-> "", email |-> ""]
    ELSE [name |-> strip(w.git.name[1]), email |-> strip(w.git.email[1])]

\* git credential fill for https://github.com; pick is the entry the
\* credential helper answers with when it holds several.
get_git_credentials(w, pick) ==
    IF w.gitFail = "fill" \/ pick = <<>> THEN <<>>
    ELSE LET info == get_git_user_info(w)
         IN  <<[username |-> pick[1], password |-> w.git.cred[pick[1]][1],
                name |-> info.name, email |-> info.email]>>
FillAnswers(g) ==
    IF \A u \in Users : g.cred[u] = <<>> THEN {<<>>}
    ELSE {<<u>> : u \in {v \in Users : g.cred[v] # <<>>}}

\* merge_profiles with the synthesized profile's email left out.
merge_new_without_email(P, E) ==
    IF E = <<>> THEN P
    ELSE LET g == E[1]
         IN  IF Has(P, g.username)
             THEN [i \in 1..Len(P) |->
                     IF P[i].user # g.username THEN P[i]
                     ELSE [P[i] EXCEPT
                             !.email = IF g.email # "" /\ @ = "" THEN g.email ELSE @,
                             !.name = IF g.name # "" /\ @ = "" THEN g.name ELSE @]]
             ELSE Append(P, [user |-> g.username, token |-> g.password,
                             name |-> IF g.name # "" THEN g.name ELSE g.username,
                             email |-> "", tag |-> "N/A",
                             is_current |-> FALSE])

\* merge_profiles taking the token of an existing profile from git.
merge_overwrite_token(P, E) ==
    IF E = <<>> THEN P
    ELSE LET g == E[1]
         IN  IF Has(P, g.username)
             THEN [i \in 1..Len(P) |->
                     IF P[i].user # g.username THEN P[i]
                     ELSE [P[i] EXCEPT
                             !.token = g.password,
                             !.email = IF g.email # "" /\ @ = "" THEN g.email ELSE @,
                             !.name = IF g.name # "" /\ @ = "" THEN g.name ELSE @]]
             ELSE Append(P, [user |-> g.username, token |-> g.password,
                             name |-> IF g.name # "" THEN g.name ELSE g.username,
                             email |-> g.email, tag |-> "N/A",
                             is_current |-> FALSE])

\* merge_profiles assigning self.profiles only when git holds a credential.
merge_only_with_credential(P, E) ==
    IF E = <<>> THEN <<>>
    ELSE LET g == E[1]
         IN  IF Has(P, g.username)
             THEN [i \in 1..Len(P) |->
                     IF P[i].user # g.username THEN P[i]
                     ELSE [P[i] EXCEPT
                             !.email = IF g.email # "" /\ @ = "" THEN g.email ELSE @,
                             !.name = IF g.name # "" /\ @ = "" THEN g.name ELSE @]]
             ELSE Append(P, [user |-> g.username, token |-> g.password,
                             name |-> IF g.name # "" THEN g.name ELSE g.username,
                             email |-> g.email, tag |-> "N/A",
                             is_current |-> FALSE])

\* merge_profiles naming a synthesized profile after its username.
merge_name_always_username(P, E) ==
    IF E = <<>> THEN P
    ELSE LET g == E[1]
         IN  IF Has(P, g.username)
             THEN [i \in 1..Len(P) |->
                     IF P[i].user # g.username THEN P[i]
                     ELSE [P[i] EXCEPT
                             !.email = IF g.email # "" /\ @ = "" THEN g.email ELSE @,
                             !.name = IF g.name # "" /\ @ = "" THEN g.name ELSE @]]
             ELSE Append(P, [user |-> g.username, token |-> g.password,
                             name |-> g.username,
                             email |-> g.email, tag |-> "N/A",
                             is_current |-> FALSE])

\* merge_profiles without its last two lines: the merged dict.
merge(P, E) ==
    IF E = <<>> THEN P
    ELSE LET g == E[1]
         IN  IF Has(P, g.username)
             THEN [i \in 1..Len(P) |->
                     IF P[i].user # g.username THEN P[i]
                     ELSE [P[i] EXCEPT
                             !.email = IF g.email # "" /\ @ = "" THEN g.email ELSE @,
                             !.name = IF g.name # "" /\ @ = "" THEN g.name ELSE @]]
             ELSE Append(P, [user |-> g.username, token |-> g.password,
                             name |-> IF g.name # "" THEN g.name ELSE g.username,
                             email |-> g.email, tag |-> "N/A",
                             is_current |-> FALSE])

merge_profiles(w, P, E) == save_profiles([w EXCEPT !.profiles = merge(P, E)])

\* The first profile in mapping order whose name and email equal the
\* stripped output of git config for the global pair; an unset key reads
\* as ''.
get_current_profile(P, g) ==
    LET current_name == IF g.name = <<>> THEN "" ELSE strip(g.name[1])
        current_email == IF g.email = <<>> THEN "" ELSE strip(g.email[1])
        hits == {i \in 1..Len(P) :
                   P[i].name = current_name /\ P[i].email = current_email}
    IN  IF hits = {} THEN <<>>
        ELSE <<P[CHOOSE i \in hits : \A j \in hits : i <= j].user>>

\* update_current_profile setting the new flag without clearing the others.
SetCurrentKeepOthers(P, u) ==
    [i \in 1..Len(P) |-> [P[i] EXCEPT !.is_current = @ \/ (P[i].user = u)]]
SetCurrent(P, u) == [i \in 1..Len(P) |-> [P[i] EXCEPT !.is_current = (P[i].user = u)]]
ClearCurrent(P) == [i \in 1..Len(P) |-> [P[i] EXCEPT !.is_current = FALSE]]

update_current_profile(w, u) ==
    save_profiles([w EXCEPT !.profiles = SetCurrent(@, u)])

\* load_profiles writing the resolved profile through to git.
load_profiles_writes_git(w, pick) ==
    LET l == load_keyring_profiles(w)
    IN  IF l.raised THEN handle_error(l.w)
        ELSE LET w1 == IF l.w.gitFail = "fill" /\ pick # <<>> THEN Hit(l.w) ELSE l.w
                 m == merge_profiles(w1, l.profiles, get_git_credentials(w1, pick))
                 cur == get_current_profile(m.profiles, m.git)
             IN  IF cur # <<>>
                 THEN [update_current_profile(m, cur[1]) EXCEPT
                         !.git.helper = <<"manager-core">>,
                         !.git.cred = [@ EXCEPT ![cur[1]] =
                                          <<Get(m.profiles, cur[1]).token>>]]
                 ELSE save_profiles([m EXCEPT !.profiles = ClearCurrent(@)])

\* load_profiles saving the loaded flags as they are when git's identity
\* matches no profile.
load_profiles_keeps_flags(w, pick) ==
    LET l == load_keyring_profiles(w)
    IN  IF l.raised THEN handle_error(l.w)
        ELSE LET w1 == IF l.w.gitFail = "fill" /\ pick # <<>> THEN Hit(l.w) ELSE l.w
                 m == merge_profiles(w1, l.profiles, get_git_credentials(w1, pick))
                 cur == get_current_profile(m.profiles, m.git)
             IN  IF cur # <<>> THEN update_current_profile(m, cur[1])
                 ELSE save_profiles(m)

load_profiles(w, pick) ==
    LET l == load_keyring_profiles(w)
    IN  IF l.raised THEN handle_error(l.w)
        ELSE LET w1 == IF l.w.gitFail = "fill" /\ pick # <<>> THEN Hit(l.w) ELSE l.w
                 m == merge_profiles(w1, l.profiles, get_git_credentials(w1, pick))
                 cur == get_current_profile(m.profiles, m.git)
             IN  IF cur # <<>> THEN update_current_profile(m, cur[1])
                 ELSE save_profiles([m EXCEPT !.profiles = ClearCurrent(@)])

\* GitHubProfileManager.__init__
init(w, pick) ==
    LET l == load_profiles([w EXCEPT !.profiles = <<>>], pick)
        cur == get_current_profile(l.profiles, l.git)
    IN  IF cur # <<>> THEN update_current_profile(l, cur[1]) ELSE l

NoCreds == [u \in Users |-> <<>>]

\* update_git_config without the reset of the credential store.
remove_all_noop(w) == w
\* git credential reject for the host; a failure is printed and swallowed.
remove_all_github_credentials(w) ==
    IF w.gitFail = "reject_all" THEN Hit(w)
    ELSE [w EXCEPT !.git.cred = NoCreds]

\* delete_profile rejecting every github.com credential.
remove_git_credential_all(w, u) ==
    IF w.gitFail = "reject_user" THEN Hit(w)
    ELSE [w EXCEPT !.git.cred = NoCreds]

\* delete_profile leaving the deleted account's credential in git.
remove_git_credential_noop(w, u) == w
\* git credential reject for one username; a failure is printed and swallowed.
remove_git_credential(w, u) ==
    IF w.gitFail = "reject_user" THEN Hit(w)
    ELSE [w EXCEPT !.git.cred[u] = <<>>]

\* update_git_config without the user.email write.
update_git_config_no_email(w, username, name, email, token) ==
    LET w1 == remove_all_github_credentials(w)
        w2 == [w1 EXCEPT !.git.name = <<name>>]
        w4 == [w2 EXCEPT !.git.helper = <<"manager-core">>]
        w5 == [w4 EXCEPT !.git.cred[username] = <<token>>]
    IN  IF w.gitFail = "cfg_name" THEN Hit(handle_error(w1))
        ELSE IF w.gitFail = "cfg_helper" THEN Hit(handle_error(w2))
        ELSE IF w.gitFail = "approve" THEN Hit(handle_error(w4))
        ELSE w5

update_git_config(w, username, name, email, token) ==
    LET w1 == remove_all_github_credentials(w)
        w2 == [w1 EXCEPT !.git.name = <<name>>]
        w3 == [w2 EXCEPT !.git.email = <<email>>]
        w4 == [w3 EXCEPT !.git.helper = <<"manager-core">>]
        w5 == [w4 EXCEPT !.git.cred[username] = <<token>>]
    IN  IF w.gitFail = "cfg_name" THEN Hit(handle_error(w1))
        ELSE IF w.gitFail = "cfg_email" THEN Hit(handle_error(w2))
        ELSE IF w.gitFail = "cfg_helper" THEN Hit(handle_error(w3))
        ELSE IF w.gitFail = "approve" THEN Hit(handle_error(w4))
        ELSE w5

\* Raises (raised = TRUE) when the profile or its token is missing.
switch_to_profile(w, u) ==
    IF ~Has(w.profiles, u) \/ Get(w.profiles, u).token = ""
    THEN [w EXCEPT !.raised = TRUE]
    ELSE LET p == Get(w.profiles, u)
         IN  Say(update_current_profile(
                     update_git_config(w, u, p.name, p.email, p.token), u),
                 "info")

\* switch_profile without the check that the profile has a token.
switch_profile_no_token_check(w, u) ==
    IF ~Has(w.profiles, u)
    THEN handle_error(w)
    ELSE LET p == Get(w.profiles, u)
         IN  Say(update_current_profile(
                     update_git_config(w, u, p.name, p.email, p.token), u),
                 "success")

switch_profile(w, u) ==
    IF ~Has(w.profiles, u) \/ Get(w.profiles, u).token = ""
    THEN handle_error(w)
    ELSE LET p == Get(w.profiles, u)
         IN  Say(update_current_profile(
                     update_git_config(w, u, p.name, p.email, p.token), u),
                 "success")

\* git config --global --unset fails when the key is not set.
clear_git_config(w) ==
    LET w1 == [w EXCEPT !.git.name = <<>>]
        w2 == [w1 EXCEPT !.git.email = <<>>]
        w3 == [w2 EXCEPT !.git.helper = <<>>]
        w4 == remove_all_github_credentials(w3)
        w5 == save_profiles([w4 EXCEPT !.profiles = ClearCurrent(@)])
    IN  IF w.gitFail = "unset_name" THEN Hit(handle_error(w))
        ELSE IF w.git.name = <<>> THEN handle_error(w)
        ELSE IF w.gitFail = "unset_email" THEN Hit(handle_error(w1))
        ELSE IF w.git.email = <<>> THEN handle_error(w1)
        ELSE IF w.gitFail = "unset_helper" THEN Hit(handle_error(w2))
        ELSE IF w.git.helper = <<>> THEN handle_error(w2)
        ELSE Say(w5, "info")

\* sorted(self.profiles.keys())[0]
FirstSorted(P) == CHOOSE u \in KeySet(P) : \A v \in KeySet(P) : Rank(u) <= Rank(v)

\* confirm is the answer to the "currently in use" question.
delete_profile(w, u, confirm) ==
    LET is_current == Get(w.profiles, u).is_current
        w1 == [w EXCEPT !.profiles = Remove(@, u)]
        \* keyring.delete_password raises when the entry does not exist
        deleted == Avail(w1, 1) = 1 /\ w1.kr.rec[u] # <<>>
        w2 == Consume([w1 EXCEPT !.kr.rec[u] = <<>>], 1)
        w3 == save_profiles(remove_git_credential(w2, u))
        s == switch_to_profile(w3, FirstSorted(w3.profiles))
    IN  IF is_current /\ ~confirm THEN w
        ELSE IF Avail(w1, 1) = 0 THEN Hit(handle_error(w1))
        ELSE IF ~deleted THEN handle_error(w1)
        ELSE IF ~is_current THEN Say(w3, "success")
        ELSE IF w3.profiles = <<>> THEN Say(clear_git_config(w3), "success")
        ELSE IF s.raised THEN handle_error([s EXCEPT !.raised = FALSE])
        ELSE Say(s, "success")

\* self.profiles[username] = new_profile
Put(P, p) ==
    IF Has(P, p.user)
    THEN [i \in 1..Len(P) |-> IF P[i].user = p.user THEN p ELSE P[i]]
    ELSE Append(P, p)

\* handle_oauth_completion from the answer to the tag prompt on.
add_new_profile(w, token, info, tag) ==
    LET new_profile == [user |-> info.login, token |-> token,
                        name |-> IF info.name # "" THEN info.name ELSE info.login,
                        email |-> info.email, tag |-> tag[1],
                        is_current |-> FALSE]
        w1 == save_profiles([w EXCEPT !.profiles = Put(@, new_profile)])
        w2 == switch_to_profile(update_current_profile(w1, info.login), info.login)
    IN  IF tag = <<>> THEN w
        ELSE IF get_current_profile(w1.profiles, w1.git) = <<>> THEN Say(w2, "success")
        ELSE Say(w1, "success")

\* handle_oauth_completion without the `username not in self.profiles` check.
handle_oauth_completion_no_check(w, token, info, tag) ==
    add_new_profile(w, token, info, tag)

\* info is what GitHub's user endpoint answers for the token: login, name
\* and email ('' for null); tag is <<>> when the tag prompt is cancelled.
handle_oauth_completion(w, token, info, tag) ==
    IF Has(w.profiles, info.login) THEN Say(w, "info")
    ELSE add_new_profile(w, token, info, tag)

\* app.py only; the dialog is accepted with these three texts.
edit_profile(w, u, new_name, new_email, new_tag) ==
    LET w1 == save_profiles(
                [w EXCEPT !.profiles =
                    [i \in 1..Len(@) |->
                       IF @[i].user # u THEN @[i]
                       ELSE [@[i] EXCEPT !.name = new_name, !.email = new_email,
                                         !.tag = new_tag]]])
        p == Get(w1.profiles, u)
        w2 == IF p.is_current /\ p.token # ""
              THEN update_git_config(w1, u, new_name, new_email, p.token)
              ELSE w1
    IN  Say(w2, "success")

(***************************************************************************)
(* GitHubOAuthDialog.  The dialog is a record; a modal box opened by one   *)
(* of its callbacks (QMessageBox, QInputDialog) runs a nested event loop   *)
(* in which both timers keep firing, so the callback is suspended as a     *)
(* frame on a stack until the box is closed, topmost box first.            *)
(***************************************************************************)
\* self.interval + 5
SlowDownStep == 5
\* data['interval'] of the device-code answer
InitialInterval == 5
\* Largest poll interval reached by adding SlowDownStep, and data['expires_in']
\* in ticks of the countdown timer.
MaxInterval == 10
MaxExpires == 2
\* Largest number of modal boxes open at once, and of auth_completed
\* emissions of one dialog.
MaxDepth == 2
MaxEmits == 2

\* The interval a slow_down answer may carry.
ServerIntervals == {5, 30}
NoData == [error |-> <<>>, interval |-> <<>>, access_token |-> <<>>]
Pending == [NoData EXCEPT !.error = <<"authorization_pending">>]
SlowDown(i) == [NoData EXCEPT !.error = <<"slow_down">>, !.interval = i]
Success(t) == [NoData EXCEPT !.access_token = <<t>>]
\* What the token endpoint may answer for the device code of account u.
PollAnswers(u) ==
    {Pending, Success(TokenOf(u))}
    \cup {SlowDown(i) : i \in {<<>>} \cup {<<n>> : n \in ServerIntervals}}
    \cup {[NoData EXCEPT !.error = <<e>>] :
             e \in {"expired_token", "access_denied", "unsupported_grant_type"}}

NoDialog ==
    [open |-> FALSE, account |-> "", expires_in |-> 0, interval |-> 0,
     timer |-> FALSE, poll_timer |-> FALSE, retry |-> FALSE, result |-> "none",
     stack |-> <<>>, emitted |-> <<>>]

\* GitHubOAuthDialog(*oauth_data) and dialog.exec_(): __init__ and init_ui.
GitHubOAuthDialog(u, expires_in, interval) ==
    [NoDialog EXCEPT !.open = TRUE, !.account = u, !.expires_in = expires_in,
                     !.interval = interval, !.timer = TRUE, !.poll_timer = TRUE]

Frame(kind, arg, fresh) == [kind |-> kind, arg |-> arg, fresh |-> fresh]
Push(d, fr) == [d EXCEPT !.stack = Append(@, fr)]

update_timer(d) ==
    LET e == d.expires_in - 1
    IN  [d EXCEPT !.expires_in = e,
                  !.timer = IF e <= 0 THEN FALSE ELSE @,
                  !.retry = IF e <= 0 THEN TRUE ELSE @]

\* handle_oauth_completion up to its first modal box: the warning for an
\* empty token, the "already exists" box, or the tag prompt.
emit(d, P, token) ==
    Push([d EXCEPT !.emitted = Append(@, token)],
         Frame(IF token = "" THEN "no_token" ELSE "handler", token,
               token # "" /\ ~Has(P, d.account)))

retry_oauth(d, P) == emit(d, P, "")

\* poll_for_token backing off on authorization_pending as well.
poll_for_token_pending_backs_off(d, P, data) ==
    IF data.error # <<>>
    THEN IF data.error[1] = "authorization_pending"
         THEN [d EXCEPT !.interval = @ + SlowDownStep]
         ELSE IF data.error[1] = "slow_down"
         THEN [d EXCEPT !.interval = IF data.interval # <<>> THEN data.interval[1]
                                     ELSE @ + SlowDownStep]
         ELSE Push(d, Frame("warning", data.error[1], FALSE))
    ELSE IF data.access_token # <<>> THEN emit(d, P, data.access_token[1])
    ELSE d

\* poll_for_token returning on slow_down without touching the interval.
poll_for_token_slow_down_ignored(d, P, data) ==
    IF data.error # <<>>
    THEN IF data.error[1] \in {"authorization_pending", "slow_down"} THEN d
         ELSE Push(d, Frame("warning", data.error[1], FALSE))
    ELSE IF data.access_token # <<>> THEN emit(d, P, data.access_token[1])
    ELSE d

\* poll_for_token up to its first modal box; data is response.json().
poll_for_token(d, P, data) ==
    IF data.error # <<>>
    THEN IF data.error[1] = "authorization_pending" THEN d
         ELSE IF data.error[1] = "slow_down"
         THEN [d EXCEPT !.interval = IF data.interval # <<>> THEN data.interval[1]
                                     ELSE @ + SlowDownStep]
         ELSE Push(d, Frame("warning", data.error[1], FALSE))
    ELSE IF data.access_token # <<>> THEN emit(d, P, data.access_token[1])
    ELSE d

\* poll_for_token giving up polling when requests.post raises.
poll_failed_stops_polling(d) ==
    Push([d EXCEPT !.poll_timer = FALSE], Frame("critical", "", FALSE))

\* requests.post raised: ErrorBoundary.handle_error shows a modal box.
poll_failed(d) == Push(d, Frame("critical", "", FALSE))

\* The topmost box is closed and the suspended callback runs to its end:
\* reject() after a warning, poll_timer.stop() and accept() after the
\* handler of a token.  exec_() returns, and add_account drops the dialog
\* with its timers, once no box is left and the dialog has a result.
resume(d) ==
    LET top == d.stack[Len(d.stack)]
        d1 == [d EXCEPT !.stack = SubSeq(@, 1, Len(@) - 1)]
        d2 == IF top.kind = "warning" THEN [d1 EXCEPT !.result = "rejected"]
              ELSE IF top.kind = "handler"
              THEN [d1 EXCEPT !.poll_timer = FALSE, !.result = "accepted"]
              ELSE d1
    IN  IF d2.stack = <<>> /\ d2.result # "none"
        THEN [NoDialog EXCEPT !.result = d2.result, !.emitted = d2.emitted]
        ELSE d2

(***************************************************************************)
(* The state machine.                                                      *)
(***************************************************************************)
VARIABLES
    profiles,   \* self.profiles
    kr,         \* the keyring: [usernames: the index, rec: username -> record]
    git,        \* [name, email, helper, cred: username -> secret]
    running,    \* the window has been constructed
    budget,     \* handler runs that may still meet a failing external call
    last,       \* the handler that ran last, its arguments and its dialogs
    dlg         \* the GitHubOAuthDialog of add_account, if one is open

vars == <<profiles, kr, git, running, budget, last, dlg>>

EmptyKeyring == [usernames |-> <<>>, rec |-> [u \in Users |-> <<>>]]

\* What git may hold before the program first runs.
InitCreds ==
    {[u \in Users |-> IF u \in S THEN <<SecretOf(u)>> ELSE <<>>] : S \in SUBSET Users}
    \cup {[u \in Users |-> IF u = AllUsers[1] THEN <<"">> ELSE <<>>]}
InitGits ==
    {[name |-> id[1], email |-> id[2], helper |-> h, cred |-> c] :
        id \in {<<<<>>, <<>>>>, <<<<"Dev">>, <<>>>>, <<<<"Dev">>, <<"dev@x">>>>},
        h \in {<<>>, <<"manager-core">>},
        c \in InitCreds}

\* data is the answer of the token endpoint when the handler polled it.
Last(op, u, f, w, flag) ==
    [op |-> op, user |-> u, fault |-> [f EXCEPT !.n = 0], out |-> w.out,
     flag |-> flag, data |-> NoData]
NoLast ==
    [op |-> "none", user |-> "", fault |-> NoFault, out |-> {}, flag |-> FALSE,
     data |-> NoData]

InitWith(b) ==
    /\ profiles = <<>>
    /\ kr = EmptyKeyring
    /\ git \in InitGits
    /\ running = FALSE
    /\ budget = b
    /\ last = NoLast
    /\ dlg = NoDialog

\* Every external call succeeds.
Init == InitWith(0)
\* External calls may fail.
InitFaulty == InitWith(MaxFaultyOps)

Commit(w, f) ==
    /\ profiles' = w.profiles
    /\ kr' = w.kr
    /\ git' = w.git
    /\ f = NoFault \/ w.hit
    /\ budget' = IF f = NoFault THEN budget ELSE budget - 1

Plans == IF budget > 0 THEN FaultPlans ELSE {NoFault}

\* The program is started (again): __init__ runs on an empty self.profiles.
Startup ==
    \E f \in Plans, pick \in FillAnswers(git) :
        LET w == init(World(<<>>, kr, git, f), pick)
        IN  /\ Commit(w, f)
            /\ running' = TRUE
            /\ UNCHANGED dlg
            /\ last' = Last("startup", "", f, w, FALSE)

SwitchProfile ==
    /\ running
    /\ \E f \in Plans, u \in KeySet(profiles) :
        LET w == switch_profile(World(profiles, kr, git, f), u)
        IN  /\ Commit(w, f)
            /\ last' = Last("switch", u, f, w,
                             \E v \in Users \ {u} : git.cred[v] # <<>>)
            /\ UNCHANGED <<running, dlg>>

DeleteProfile ==
    /\ running
    /\ \E f \in Plans, u \in KeySet(profiles), confirm \in BOOLEAN :
        LET w == delete_profile(World(profiles, kr, git, f), u, confirm)
        IN  /\ Commit(w, f)
            /\ last' = Last("delete", u, f, w, Get(profiles, u).is_current)
            /\ UNCHANGED <<running, dlg>>

\* The device flow delivered the token of account u.
HandleOauthCompletion ==
    /\ running
    /\ \E f \in Plans, u \in Users, gh \in GitHubInfos,
          tag \in {<<>>} \cup {<<t>> : t \in TagInputs} :
        LET w0 == World(profiles, kr, git, f)
            w == IF f.kind = "net" THEN Hit(handle_error(w0))
                 ELSE handle_oauth_completion(
                        w0, TokenOf(u),
                        [login |-> u, name |-> gh.name, email |-> gh.email], tag)
        IN  /\ Commit(w, f)
            /\ last' = Last("add", u, f, w, tag # <<>>)
            /\ UNCHANGED <<running, dlg>>

EditProfile ==
    /\ running
    /\ \E f \in Plans, u \in KeySet(profiles), n \in NameInputs,
          e \in EmailInputs, t \in TagInputs :
        LET w == edit_profile(World(profiles, kr, git, f), u, n, e, t)
        IN  /\ Commit(w, f)
            /\ last' = Last("edit", u, f, w, FALSE)
            /\ UNCHANGED <<running, dlg>>

Next ==
    \/ Startup
    \/ SwitchProfile
    \/ DeleteProfile
    \/ HandleOauthCompletion
    \/ EditProfile

Spec == Init /\ [][Next]_vars
FaultySpec == InitFaulty /\ [][Next]_vars

(***************************************************************************)
(* add_account and its dialog: the window is up, nothing is stored yet,    *)
(* and the "Add Account" button opens one device session after another.    *)
(***************************************************************************)
FlowGits == {g \in InitGits : g.cred = NoCreds /\ g.helper = <<>> /\ g.name = <<>>}

FlowInit ==
    /\ profiles = <<>>
    /\ kr = EmptyKeyring
    /\ git \in FlowGits
    /\ running = TRUE
    /\ budget = 0
    /\ last = NoLast
    /\ dlg = NoDialog

Here == World(profiles, kr, git, NoFault)
NetFault == [kind |-> "net", call |-> "", n |-> 0]

\* A callback of the dialog that leaves the profile store alone.
DialogStep(op, f, kind, flag, data, d) ==
    /\ Len(d.stack) <= MaxDepth
    /\ Len(d.emitted) <= MaxEmits
    /\ d.interval <= MaxInterval \/ d.interval \in ServerIntervals
    /\ dlg' = d
    /\ last' = [Last(op, dlg.account, f, IF kind = "" THEN Here ELSE Say(Here, kind),
                      flag) EXCEPT !.data = data]
    /\ UNCHANGED <<profiles, kr, git, running, budget>>

\* add_account up to dialog.exec_(): the dialog generate_github_oauth's
\* answer opens, none when the request failed.
add_account(u, ok) ==
    IF ok THEN GitHubOAuthDialog(u, MaxExpires, InitialInterval) ELSE NoDialog

\* add_account opening the dialog whatever generate_github_oauth returned.
AddAccountOpensAnyway ==
    /\ running
    /\ ~dlg.open
    /\ \E u \in Users, ok \in BOOLEAN :
        /\ dlg' = GitHubOAuthDialog(u, MaxExpires, InitialInterval)
        /\ last' = Last("add_account", u, IF ok THEN NoFault ELSE NetFault,
                         IF ok THEN Here ELSE handle_error(Here), ok)
        /\ UNCHANGED <<profiles, kr, git, running, budget>>

\* add_account: ok says whether the device-code request was answered with
\* status 200; u is the account the user will authorize in the browser.
AddAccount ==
    /\ running
    /\ ~dlg.open
    /\ \E u \in Users, ok \in BOOLEAN :
        /\ dlg' = add_account(u, ok)
        /\ last' = Last("add_account", u, IF ok THEN NoFault ELSE NetFault,
                         IF ok THEN Here ELSE handle_error(Here), ok)
        /\ UNCHANGED <<profiles, kr, git, running, budget>>

\* self.timer fires.
CountdownTick ==
    /\ dlg.open
    /\ dlg.timer
    /\ DialogStep("tick", NoFault, "", FALSE, NoData, update_timer(dlg))

\* self.poll_timer fires and the token endpoint answers.
PollTick ==
    /\ dlg.open
    /\ dlg.poll_timer
    /\ \E data \in PollAnswers(dlg.account) :
        LET d == poll_for_token(dlg, profiles, data)
        IN  DialogStep("poll", NoFault,
                       IF Len(d.stack) > Len(dlg.stack) /\ data.error # <<>>
                       THEN "warning" ELSE "",
                       dlg.expires_in <= 0, data, d)

\* self.poll_timer fires and requests.post raises.
PollFails ==
    /\ dlg.open
    /\ dlg.poll_timer
    /\ DialogStep("poll", NetFault, "error", dlg.expires_in <= 0, NoData,
                  poll_failed(dlg))

\* The "Generate New Code" button.
RetryOauth ==
    /\ dlg.open
    /\ dlg.retry
    /\ dlg.stack = <<>>
    /\ DialogStep("retry", NoFault, "warning", FALSE, NoData,
                  retry_oauth(dlg, profiles))

\* The user closes the dialog: QDialog.reject().
Cancel ==
    /\ dlg.open
    /\ dlg.stack = <<>>
    /\ DialogStep("cancel", NoFault, "", FALSE, NoData,
                  [NoDialog EXCEPT !.result = "rejected", !.emitted = dlg.emitted])

\* The topmost modal box is closed.  For the tag prompt of
\* handle_oauth_completion, tag is the text entered (<<>> when cancelled)
\* and gh what GitHub's user endpoint answered for the token.
CloseBox ==
    /\ dlg.open
    /\ dlg.stack # <<>>
    /\ LET top == dlg.stack[Len(dlg.stack)]
       IN  IF top.kind = "handler"
           THEN \E gh \in GitHubInfos, tag \in {<<>>} \cup {<<t>> : t \in TagInputs} :
                   LET w == IF top.fresh
                            THEN add_new_profile(
                                   Here, top.arg,
                                   [login |-> dlg.account, name |-> gh.name,
                                    email |-> gh.email], tag)
                            ELSE Say(Here, "info")
                   IN  /\ profiles' = w.profiles
                       /\ kr' = w.kr
                       /\ git' = w.git
                       /\ dlg' = resume(dlg)
                       /\ last' = Last("add", dlg.account, NoFault, w, tag # <<>>)
                       /\ UNCHANGED <<running, budget>>
           ELSE DialogStep("close", NoFault, "", FALSE, NoData, resume(dlg))

FlowNext ==
    \/ AddAccount
    \/ CountdownTick
    \/ PollTick
    \/ PollFails
    \/ RetryOauth
    \/ Cancel
    \/ CloseBox

FlowSpec == FlowInit /\ [][FlowNext]_vars

(***************************************************************************)
(* A device session nobody attends to: the user never authorizes, presses  *)
(* no button and closes nothing, and every poll either fails or is         *)
(* answered with authorization_pending or slow_down.  An active QTimer     *)
(* keeps firing, so each of the two callbacks is taken again and again as  *)
(* long as its timer runs.                                                 *)
(***************************************************************************)
WaitAnswers == {d \in PollAnswers(dlg.account) :
                  d.error \in {<<"authorization_pending">>, <<"slow_down">>}}

\* self.poll_timer fires and the token endpoint tells the client to wait.
PollWaits ==
    /\ dlg.open
    /\ dlg.poll_timer
    /\ \E data \in WaitAnswers :
        DialogStep("poll", NoFault, "", dlg.expires_in <= 0, data,
                   poll_for_token(dlg, profiles, data))

UnattendedNext ==
    \/ AddAccount
    \/ CountdownTick
    \/ PollWaits
    \/ PollFails

UnattendedSpec ==
    /\ FlowInit
    /\ [][UnattendedNext]_vars
    /\ WF_vars(CountdownTick)
    /\ WF_vars(PollWaits)

(***************************************************************************)
(* merge_profiles on its own: the persisted collection and git's           *)
(* credential are drawn from bounded sets and merged, again and again.     *)
(***************************************************************************)
\* What a stored profile may look like: any combination of a missing or
\* present token, name and email, with a tag the user gave.
Variants == [token : BOOLEAN, name : {"", "Old"}, email : {"", "old@x"}, tag : {"work"}]
Stored(u, v) ==
    [user |-> u, token |-> IF v.token THEN TokenOf(u) ELSE "", name |-> v.name,
     email |-> v.email, tag |-> v.tag, is_current |-> FALSE]
Orders ==
    {s \in UNION {[1..n -> Users] : n \in 0..MaxUsers} :
        \A i, j \in 1..Len(s) : s[i] = s[j] => i = j}
Collections ==
    UNION {{[i \in 1..Len(s) |-> Stored(s[i], c[i])] : c \in [1..Len(s) -> Variants]} :
             s \in Orders}
MergeCreds ==
    {NoCreds}
    \cup {[NoCreds EXCEPT ![u] = <<SecretOf(u)>>] : u \in Users}
    \cup {[NoCreds EXCEPT ![u] = <<"">>] : u \in Users}
MergeGits ==
    {[name |-> id[1], email |-> id[2], helper |-> <<"manager-core">>, cred |-> c] :
        id \in {<<<<>>, <<>>>>, <<<<"Dev">>, <<"">>>>, <<<<"Dev">>, <<"dev@x">>>>},
        c \in MergeCreds}

MergeInit ==
    /\ profiles \in Collections
    /\ git \in MergeGits
    /\ kr = save_profiles(World(profiles, EmptyKeyring, git, NoFault)).kr
    /\ running = FALSE
    /\ budget = 0
    /\ last = NoLast
    /\ dlg = NoDialog

\* The external credential load_profiles hands to merge_profiles.
External(pick) == get_git_credentials(World(profiles, kr, git, NoFault), pick)

MergeProfiles ==
    /\ ~running
    /\ \E pick \in FillAnswers(git) :
        LET w == merge_profiles(World(profiles, kr, git, NoFault), profiles,
                                External(pick))
        IN  /\ Commit(w, NoFault)
            /\ last' = Last("merge", IF pick = <<>> THEN "" ELSE pick[1], NoFault, w,
                             pick # <<>> /\ Has(profiles, pick[1])
                                /\ w.profiles # profiles)
            /\ UNCHANGED <<running, dlg>>

MergeSpec == MergeInit /\ [][MergeProfiles]_vars

(***************************************************************************)
(* get_current_profile against what git holds: the keyring holds a         *)
(* collection whose names may carry surrounding whitespace (edit_profile   *)
(* stores name_edit.text() as typed), git's identity is drawn likewise,    *)
(* and the program is started and profiles are switched.                   *)
(***************************************************************************)
ResolveVariants == [name : {"Dev", "Dev "}, email : {"", "dev@x"}]
ResolveCollections ==
    UNION {{[i \in 1..Len(s) |->
               [user |-> s[i], token |-> TokenOf(s[i]), name |-> c[i].name,
                email |-> c[i].email, tag |-> "work", is_current |-> FALSE]] :
              c \in [1..Len(s) -> ResolveVariants]} :
             s \in Orders}
ResolveGits ==
    {[name |-> n, email |-> e, helper |-> <<"manager-core">>, cred |-> NoCreds] :
        n \in {<<>>, <<"Dev">>, <<"Dev ">>}, e \in {<<>>, <<"dev@x">>}}

ResolveInit ==
    /\ profiles = <<>>
    /\ git \in ResolveGits
    /\ \E P \in ResolveCollections :
          kr = save_profiles(World(P, EmptyKeyring, git, NoFault)).kr
    /\ running = FALSE
    /\ budget = 0
    /\ last = NoLast
    /\ dlg = NoDialog

ResolveNext ==
    \/ Startup
    \/ SwitchProfile

ResolveSpec == ResolveInit /\ [][ResolveNext]_vars

(***************************************************************************)
(* Startup on a keyring the program finds: the index lists any usernames   *)
(* in any order, and a username has no record, a record that is not JSON,  *)
(* or a record with any is_current flag.                                   *)
(***************************************************************************)
StoredRecords(u) ==
    {<<>>, <<Garbled>>}
    \cup {<<[token |-> TokenOf(u), name |-> n, email |-> "dev@x", tag |-> "work",
             is_current |-> c]>> : n \in {"Dev", "Old"}, c \in BOOLEAN}
StoredKeyrings ==
    {[usernames |-> idx, rec |-> r] :
        idx \in Orders, r \in {f \in [Users -> UNION {StoredRecords(u) : u \in Users}] :
                                \A u \in Users : f[u] \in StoredRecords(u)}}
StoredGits ==
    {g \in InitGits : g.cred = NoCreds /\ g.helper = <<"manager-core">>
                        /\ (g.name = <<>>) = (g.email = <<>>)}

StoredInit ==
    /\ profiles = <<>>
    /\ kr \in StoredKeyrings
    /\ git \in StoredGits
    /\ running = FALSE
    /\ budget = 0
    /\ last = NoLast
    /\ dlg = NoDialog

\* The usernames of the index whose record json.loads rejects, and those
\* whose record carries is_current = true.
Malformed(k) ==
    SelectSeq(k.usernames, LAMBDA u : k.rec[u] = <<Garbled>>)
Flagged(k) ==
    SelectSeq(k.usernames, LAMBDA u : /\ k.rec[u] # <<>>
                                      /\ k.rec[u][1] # Garbled
                                      /\ k.rec[u][1].is_current)

\* The program is started on the keyring as it is: last.user is the first
\* username whose record is not JSON, last.flag says that a record carried
\* is_current.
StartOnStored ==
    \E pick \in FillAnswers(git) :
        LET w == init(World(<<>>, kr, git, NoFault), pick)
        IN  /\ Commit(w, NoFault)
            /\ running' = TRUE
            /\ UNCHANGED dlg
            /\ last' = Last("startup",
                             IF Malformed(kr) = <<>> THEN "" ELSE Malformed(kr)[1],
                             NoFault, w, Flagged(kr) # <<>>)

StoredNext ==
    \/ StartOnStored
    \/ SwitchProfile
    \/ DeleteProfile

StoredSpec == StoredInit /\ [][StoredNext]_vars

(***************************************************************************)
(* save_profiles and load_keyring_profiles on the keyring as the keyring   *)
(* library keeps it: one text per key of the service 'github'.  The index  *)
(* is the text under the key 'usernames', a profile's record is the text   *)
(* under its username.  A text is [csv |-> names], what ','.join(names)    *)
(* gives, or [json |-> record], what json.dumps(profile) gives.            *)
(***************************************************************************)
IndexKey == "usernames"
KeyedNames == {"alice", "bob", IndexKey}
EmptyStore == [k \in KeyedNames |-> <<>>]

Csv(names) == [csv |-> names]
Json(p) == [json |-> ToJson(p)]
\* text.split(','): the names of an index; a json.dumps text falls into
\* one fragment per field, none of which is a key of the keyring.
split(t) ==
    IF "csv" \in DOMAIN t THEN t.csv
    ELSE <<"{\"token\": ..", " \"name\": ..", " \"email\": ..", " \"tag\": ..",
           " \"is_current\": ..}">>

\* keyring.get_password('github', k): <<>> is None.
get_password(store, k) == IF k \in DOMAIN store THEN store[k] ELSE <<>>
\* keyring.set_password('github', k, t)
set_password(store, k, t) == [store EXCEPT ![k] = <<t>>]

\* The loop of save_profiles over self.profiles.items(), from the i-th on.
RECURSIVE write_records(_, _, _)
write_records(store, P, i) ==
    IF i > Len(P) THEN store
    ELSE write_records(set_password(store, P[i].user, Json(P[i])), P, i + 1)

\* save_profiles with every keyring call succeeding.
save_profiles_keyed(store, P) ==
    write_records(set_password(store, IndexKey, Csv(Keys(P))), P, 1)

\* load_keyring_profiles with every keyring call succeeding: '' and None
\* are falsy, a text json.loads rejects is skipped.
load_keyring_profiles_keyed(store) ==
    LET usernames == get_password(store, IndexKey)
        names == IF usernames = <<>> \/ usernames[1] = Csv(<<>>) THEN <<>>
                 ELSE split(usernames[1])
        loads(n) == LET r == get_password(store, n)
                    IN  r # <<>> /\ "json" \in DOMAIN r[1]
        listed == SelectSeq(names, loads)
    IN  [i \in 1..Len(listed) |->
           FromJson(listed[i], get_password(store, listed[i])[1].json)]

\* Collections of up to MaxKeyed profiles in any order, with any flags.
MaxKeyed == 2
KeyedOrders ==
    {s \in UNION {[1..n -> KeyedNames] : n \in 0..MaxKeyed} :
        \A i, j \in 1..Len(s) : s[i] = s[j] => i = j}
KeyedCollections ==
    UNION {{[i \in 1..Len(s) |->
               [user |-> s[i], token |-> "tok", name |-> "Dev", email |-> "dev@x",
                tag |-> "work", is_current |-> c[i]]] : c \in [1..Len(s) -> BOOLEAN]} :
             s \in KeyedOrders}

\* The keyring holds what an earlier save of any collection left.
RoundTripInit ==
    /\ profiles \in KeyedCollections
    /\ kr \in {EmptyStore} \cup {save_profiles_keyed(EmptyStore, Q) : Q \in KeyedCollections}
    /\ git = [name |-> <<>>, email |-> <<>>, helper |-> <<>>, cred |-> NoCreds]
    /\ running = FALSE
    /\ budget = 0
    /\ last = NoLast
    /\ dlg = NoDialog

SaveProfiles ==
    /\ last.op = "none"
    /\ kr' = save_profiles_keyed(kr, profiles)
    /\ last' = [NoLast EXCEPT !.op = "save_profiles"]
    /\ UNCHANGED <<profiles, git, running, budget, dlg>>

LoadKeyringProfiles ==
    /\ last.op = "save_profiles"
    /\ profiles' = load_keyring_profiles_keyed(kr)
    /\ last' = [NoLast EXCEPT !.op = "load_keyring_profiles",
                              !.flag = \E i \in 1..Len(profiles) :
                                           profiles[i].user = IndexKey]
    /\ UNCHANGED <<kr, git, running, budget, dlg>>

RoundTripNext == SaveProfiles \/ LoadKeyringProfiles
RoundTripSpec == RoundTripInit /\ [][RoundTripNext]_vars

(***************************************************************************)
(* src/main.py, the list front-end.  Its methods that differ in text from  *)
(* those of src/app.py are translated here from main.py; the methods whose *)
(* code is the same in both files (merge_profiles, get_git_credentials,    *)
(* get_current_profile, update_current_profile, update_git_config,         *)
(* switch_to_profile, clear_git_config, the two credential rejects,        *)
(* handle_oauth_completion, update_timer, retry_oauth) are the operators   *)
(* above.  The username is that of the selected ProfileItem.               *)
(***************************************************************************)
\* main.py save_profiles: a logger.debug line, then the index and each record.
main_save_profiles(w) ==
    LET P == w.profiles
        want == 1 + Len(P)
        done == Avail(w, want)
        idx == IF done >= 1 THEN Keys(P) ELSE w.kr.usernames
        rec == [u \in Users |->
                  IF \E i \in 1..Len(P) : i <= done - 1 /\ P[i].user = u
                  THEN <<ToJson(Get(P, u))>>
                  ELSE w.kr.rec[u]]
        w1 == Consume([w EXCEPT !.kr = [usernames |-> idx, rec |-> rec]], done)
    IN  IF done < want THEN Hit(handle_error(w1)) ELSE w1

main_load_keyring_profiles(w) ==
    LET idx == w.kr.usernames
        want == 1 + Len(idx)
        raised == Avail(w, want) < want
        listed == SelectSeq(idx, LAMBDA u : w.kr.rec[u] # <<>>
                                            /\ w.kr.rec[u][1] # Garbled)
    IN  [raised |-> raised,
         profiles |-> IF raised THEN <<>>
                      ELSE [i \in 1..Len(listed) |->
                              FromJson(listed[i], w.kr.rec[listed[i]][1])],
         w |-> IF raised THEN Hit(Consume(w, Avail(w, want)))
               ELSE Consume(w, want)]

\* main.py load_profiles: as app.py's with two print calls.
main_load_profiles(w, pick) ==
    LET l == main_load_keyring_profiles(w)
    IN  IF l.raised THEN handle_error(l.w)
        ELSE LET w1 == IF l.w.gitFail = "fill" /\ pick # <<>> THEN Hit(l.w) ELSE l.w
                 m == merge_profiles(w1, l.profiles, get_git_credentials(w1, pick))
                 cur == get_current_profile(m.profiles, m.git)
             IN  IF cur # <<>> THEN update_current_profile(m, cur[1])
                 ELSE main_save_profiles([m EXCEPT !.profiles = ClearCurrent(@)])

\* main.py GitHubProfileManager.__init__: no cache directory, no resize.
main_init(w, pick) ==
    LET l == main_load_profiles([w EXCEPT !.profiles = <<>>], pick)
        cur == get_current_profile(l.profiles, l.git)
    IN  IF cur # <<>> THEN update_current_profile(l, cur[1]) ELSE l

\* main.py switch_profile without the update_current_profile call.
main_switch_profile_no_flag(w, u) ==
    IF ~Has(w.profiles, u) \/ Get(w.profiles, u).token = ""
    THEN handle_error(w)
    ELSE LET p == Get(w.profiles, u)
         IN  Say(update_git_config(w, u, p.name, p.email, p.token), "success")

main_switch_profile(w, u) ==
    IF ~Has(w.profiles, u) \/ Get(w.profiles, u).token = ""
    THEN handle_error(w)
    ELSE LET p == Get(w.profiles, u)
         IN  Say(update_current_profile(
                     update_git_config(w, u, p.name, p.email, p.token), u),
                 "success")

\* main.py delete_profile: takeItem on the list instead of removeRow.
main_delete_profile(w, u, confirm) ==
    LET is_current == Get(w.profiles, u).is_current
        w1 == [w EXCEPT !.profiles = Remove(@, u)]
        deleted == Avail(w1, 1) = 1 /\ w1.kr.rec[u] # <<>>
        w2 == Consume([w1 EXCEPT !.kr.rec[u] = <<>>], 1)
        w3 == main_save_profiles(remove_git_credential(w2, u))
        s == switch_to_profile(w3, FirstSorted(w3.profiles))
    IN  IF is_current /\ ~confirm THEN w
        ELSE IF Avail(w1, 1) = 0 THEN Hit(handle_error(w1))
        ELSE IF ~deleted THEN handle_error(w1)
        ELSE IF ~is_current THEN Say(w3, "success")
        ELSE IF w3.profiles = <<>> THEN Say(clear_git_config(w3), "success")
        ELSE IF s.raised THEN handle_error([s EXCEPT !.raised = FALSE])
        ELSE Say(s, "success")

\* main.py add_account: the dialog opens without a style sheet.
main_add_account(u, ok) ==
    IF ok THEN GitHubOAuthDialog(u, MaxExpires, InitialInterval) ELSE NoDialog

\* Dialogs a poll answer may arrive in: any account, countdown and interval,
\* with or without an open box and an earlier emission.
Dialogs ==
    {[GitHubOAuthDialog(u, e, i) EXCEPT !.stack = st, !.emitted = em] :
        u \in Users, e \in 0..MaxExpires,
        i \in {InitialInterval, MaxInterval} \cup ServerIntervals,
        st \in {<<>>, <<Frame("critical", "", FALSE)>>},
        em \in {<<>>, <<"">>}}

\* main.py GitHubOAuthDialog.poll_for_token.
main_poll_for_token(d, P, data) ==
    IF data.error # <<>>
    THEN IF data.error[1] = "authorization_pending" THEN d
         ELSE IF data.error[1] = "slow_down"
         THEN [d EXCEPT !.interval = IF data.interval # <<>> THEN data.interval[1]
                                     ELSE @ + SlowDownStep]
         ELSE Push(d, Frame("warning", data.error[1], FALSE))
    ELSE IF data.access_token # <<>> THEN emit(d, P, data.access_token[1])
    ELSE d

(***************************************************************************)
(* Properties.                                                             *)
(***************************************************************************)
\* What the keyring's index and records describe: what a load would return.
Persisted == load_keyring_profiles(World(<<>>, kr, git, NoFault)).profiles
\* The git calls of update_git_config that raise when they fail.
WriteThroughCalls == {"cfg_name", "cfg_email", "cfg_helper", "approve"}
\* The handler that ran last activated a profile and reported no error:
\* switch_profile, or switch_to_profile from the add-account or the delete
\* handler (its "Profile Switch" message is the "info" dialog).
SwitchSucceeded == last.op = "switch" /\ last.out = {"success"}
AddActivated == last.op = "add" /\ last.out = {"info", "success"}
FallbackActivated ==
    last.op = "delete" /\ last.out = {"info", "success"} /\ profiles # <<>>
\* Profile u is the active one and git holds its identity and credential.
ActiveInGit(u) ==
    LET p == Get(profiles, u)
    IN  /\ Current(profiles) = {u}
        /\ git.name = <<p.name>>
        /\ git.email = <<p.email>>
        /\ git.cred[u] = <<p.token>>

\* C1: in every reachable state at most one profile of self.profiles has
\* is_current = True, whatever handlers ran and whichever external calls
\* failed.
AtMostOneCurrent == Cardinality(Current(profiles)) <= 1
\* C1 witness: a switch moved the flag in a collection of two profiles.
AtMostOneCurrentWitness ==
    /\ last.op = "switch"
    /\ Len(profiles) = 2
    /\ Current(profiles) = {last.user}

\* C2 (the claim as stated): when a raising step of the write-through fails
\* during an activation, the is_current flag of no profile changes and an
\* error is reported.
ActivationIsAtomic ==
    [][(/\ last'.op \in {"switch", "add", "delete"}
        /\ last'.fault.kind = "git"
        /\ last'.fault.call \in WriteThroughCalls)
       => /\ "error" \in last'.out
          /\ \A u \in KeySet(profiles') :
               Get(profiles', u).is_current
                  = (Has(profiles, u) /\ Get(profiles, u).is_current)]_vars

\* C3: after an activation that reported no error the target is the only
\* current profile, git's global user.name and user.email are the target's
\* name and email, the credential stored for the target is its token, and
\* the keyring describes exactly self.profiles.
ActivationPostcondition ==
    /\ (SwitchSucceeded \/ AddActivated) => ActiveInGit(last.user) /\ Persisted = profiles
    /\ FallbackActivated => ActiveInGit(FirstSorted(profiles)) /\ Persisted = profiles
\* C3 witness: a successful switch to a profile whose name or email differs
\* from another profile's.
ActivationPostconditionWitness ==
    /\ SwitchSucceeded
    /\ \E v \in KeySet(profiles) \ {last.user} :
          \/ Get(profiles, v).name # Get(profiles, last.user).name
          \/ Get(profiles, v).email # Get(profiles, last.user).email

MissingTokenRejected ==
    [][/\ (/\ last'.op = "switch"
           /\ Has(profiles, last'.user)
           /\ Get(profiles, last'.user).token = "")
          => /\ last'.out = {"error"}
             /\ profiles' = profiles
             /\ kr' = kr
             /\ git' = git
       /\ (/\ last'.op = "delete"
           /\ last'.flag
           /\ last'.fault = NoFault
           /\ profiles' # <<>>
           /\ ~Has(profiles', last'.user)
           /\ Get(profiles', FirstSorted(profiles')).token = "")
          => /\ "error" \in last'.out
             /\ Current(profiles') = {}
             /\ git'.name = git.name
             /\ git'.email = git.email
             /\ git'.helper = git.helper]_vars
\* C5 witness: a switch to a profile without a token was refused.
MissingTokenRejectedWitness ==
    /\ last.op = "switch"
    /\ Has(profiles, last.user)
    /\ Get(profiles, last.user).token = ""
    /\ "error" \in last.out

\* C6 (the claim as stated): after the current profile is deleted and
\* profiles remain, the only current profile is the smallest remaining
\* username and git holds its name, email and token.
DeletionFallback ==
    (/\ last.op = "delete"
     /\ last.flag
     /\ ~Has(profiles, last.user)
     /\ profiles # <<>>)
    => ActiveInGit(FirstSorted(profiles))

\* C7 (the claim as stated): after the last profile, which was the current
\* one, is deleted, no profile is current, git's global user.name,
\* user.email and credential.helper are unset and git holds no credential
\* for github.com.
LastDeletionClearsGit ==
    (/\ last.op = "delete"
     /\ last.flag
     /\ ~Has(profiles, last.user)
     /\ profiles = <<>>)
    => /\ git.name = <<>>
       /\ git.email = <<>>
       /\ git.helper = <<>>
       /\ git.cred = NoCreds

MergeIdempotent ==
    \A pick \in FillAnswers(git) :
        LET E == External(pick)
            once == merge_profiles(World(profiles, kr, git, NoFault), profiles, E)
            twice == merge_profiles(once, once.profiles, E)
        IN  /\ merge(merge(profiles, E), E) = merge(profiles, E)
            /\ twice.profiles = once.profiles
            /\ twice.kr = once.kr
\* C9 witness: a merge has added the profile of git's credential, with git's
\* email, to a collection that already held another profile.
MergeIdempotentWitness ==
    /\ last.op = "merge"
    /\ Len(profiles) = 2
    /\ Has(profiles, last.user)
    /\ Get(profiles, last.user).tag = "N/A"
    /\ Get(profiles, last.user).email # ""

\* C10: a merge whose username is already stored keeps that profile's token
\* and tag, keeps a name or email that is not empty, gives an empty one the
\* value of git's, and leaves every other profile as it was.
MergeNonDestructive ==
    [][(last'.op = "merge" /\ last'.user # "" /\ Has(profiles, last'.user))
       => LET E == External(<<last'.user>>)[1]
          IN  /\ Keys(profiles') = Keys(profiles)
              /\ \A i \in 1..Len(profiles) :
                   IF profiles[i].user # last'.user
                   THEN profiles'[i] = profiles[i]
                   ELSE /\ profiles'[i].token = profiles[i].token
                        /\ profiles'[i].tag = profiles[i].tag
                        /\ profiles'[i].is_current = profiles[i].is_current
                        /\ profiles'[i].email =
                             IF profiles[i].email # "" THEN profiles[i].email
                             ELSE E.email
                        /\ profiles'[i].name =
                             IF profiles[i].name # "" THEN profiles[i].name
                             ELSE E.name]_vars
\* C10 witness: a merge filled a field of an existing profile whose token
\* differs from the secret git holds.
MergeNonDestructiveWitness ==
    /\ last.op = "merge"
    /\ last.flag
    /\ <<Get(profiles, last.user).token>> # git.cred[last.user]

\* C11: when git credential fill yields no username/password pair,
\* merge_profiles leaves the collection as it was loaded, and what it saves
\* is what was stored: nothing is added, removed or modified.
MergeWithoutCredential ==
    [][(last'.op = "merge" /\ last'.user = "")
       => /\ profiles' = profiles
          /\ kr' = kr]_vars
\* C11 witness: a merge without a credential ran on a stored collection.
MergeWithoutCredentialWitness ==
    /\ last.op = "merge"
    /\ last.user = ""
    /\ profiles # <<>>

\* C12: a merge whose username is not stored appends exactly one profile:
\* token = the credential's password, tag = "N/A", name = the credential's
\* name or, when that is empty, the username, email = the credential's
\* email; the profiles already stored keep their place and fields.
MergeSynthesizesProfile ==
    [][(last'.op = "merge" /\ last'.user # "" /\ ~Has(profiles, last'.user))
       => LET E == External(<<last'.user>>)[1]
          IN  profiles' =
                Append(profiles,
                       [user |-> E.username, token |-> E.password,
                        name |-> IF E.name # "" THEN E.name ELSE E.username,
                        email |-> E.email, tag |-> "N/A",
                        is_current |-> FALSE])]_vars
\* C12 witness: the store was empty and the merge made the single profile
\* of git's credential, named as git's user.name says.
MergeSynthesizesProfileWitness ==
    /\ last.op = "merge"
    /\ Len(profiles) = 1
    /\ profiles[1].user = last.user
    /\ profiles[1].tag = "N/A"
    /\ profiles[1].name = "Dev"
    /\ profiles[1].email = "dev@x"

\* What git config --global prints for a key, '' when it is unset.
GitName == IF git.name = <<>> THEN "" ELSE git.name[1]
GitEmail == IF git.email = <<>> THEN "" ELSE git.email[1]
\* Positions of the profiles whose pair is git's pair, character by character.
ExactMatches ==
    {i \in 1..Len(profiles) :
        profiles[i].name = GitName /\ profiles[i].email = GitEmail}

\* C13 (the claim as stated): get_current_profile returns the first profile
\* in mapping order whose (name, email) equals git's global (user.name,
\* user.email) exactly, and none when no profile's pair does.
ResolveReturnsExactMatch ==
    get_current_profile(profiles, git) =
        IF ExactMatches = {} THEN <<>>
        ELSE <<profiles[CHOOSE i \in ExactMatches :
                          \A j \in ExactMatches : i <= j].user>>

\* C14 (the claim as stated): after a switch that reported no error,
\* get_current_profile against git returns the profile switched to, when no
\* other profile has its (name, email) pair.
ActivationRoundTrip ==
    (/\ SwitchSucceeded
     /\ \A v \in KeySet(profiles) \ {last.user} :
           \/ Get(profiles, v).name # Get(profiles, last.user).name
           \/ Get(profiles, v).email # Get(profiles, last.user).email)
    => get_current_profile(profiles, git) = <<last.user>>

\* The auth_completed emissions of the dialog that carried a token.
Tokens(d) == SelectSeq(d.emitted, LAMBDA t : t # "")
\* A callback of the dialog is suspended in a box of the given kind.
Suspended(d, kind) == \E i \in 1..Len(d.stack) : d.stack[i].kind = kind

\* C15 (the claim as stated): a dialog emits auth_completed with a token at
\* most once, and once it has done so no further poll request is sent, also
\* while handle_oauth_completion is still running.
TokenEmittedOnce ==
    [][/\ Len(Tokens(dlg')) <= 1
       /\ (dlg.open /\ Tokens(dlg) # <<>>) => last'.op # "poll"]_vars

\* C16: a poll answered with authorization_pending changes nothing: the
\* dialog (interval, countdown, timers, result, emissions, open boxes), the
\* profiles, the keyring and git are as before and no box is shown.
PendingChangesNothing ==
    [][(last'.op = "poll" /\ last'.data = Pending)
       => /\ dlg' = dlg
          /\ profiles' = profiles
          /\ kr' = kr
          /\ git' = git
          /\ last'.out = {}]_vars
\* C16 witness: a pending answer arrived after a slow_down had changed the
\* interval and the countdown had started.
PendingChangesNothingWitness ==
    /\ last.op = "poll"
    /\ last.data = Pending
    /\ dlg.open
    /\ dlg.interval # InitialInterval
    /\ dlg.expires_in < MaxExpires

\* C17 (the claim as stated): a poll answered with slow_down makes the
\* interval strictly larger and changes nothing else of the dialog.
SlowDownIncreasesInterval ==
    [][(last'.op = "poll" /\ last'.data.error = <<"slow_down">>)
       => /\ dlg'.interval > dlg.interval
          /\ dlg' = [dlg EXCEPT !.interval = dlg'.interval]]_vars

RECURSIVE PollAll(_, _)
\* poll_for_token called once for each answer of a sequence.
PollAll(d, answers) ==
    IF answers = <<>> THEN d
    ELSE PollAll(poll_for_token(d, <<>>, Head(answers)), Tail(answers))
\* pending, pending, slow_down(interval=30), pending, success(token)
Scenario ==
    <<Pending, Pending, SlowDown(<<30>>), Pending, Success(TokenOf(AllUsers[1]))>>
ScenarioHolds ==
    LET d0 == GitHubOAuthDialog(AllUsers[1], MaxExpires, InitialInterval)
        d3 == PollAll(d0, SubSeq(Scenario, 1, 3))
        d5 == PollAll(d0, Scenario)
    IN  /\ d3.interval = 30
        /\ d5.interval = 30
        /\ d5.emitted = <<TokenOf(AllUsers[1])>>
        /\ resume(d5).result = "accepted"
        /\ resume(d5).emitted = <<TokenOf(AllUsers[1])>>

\* C18: a poll answered with slow_down sets the interval, which is the poll
\* timer's, to the answer's interval, or to the current one plus 5 when the
\* answer has none, and changes nothing else; and the answers pending,
\* pending, slow_down(30), pending, success(token) leave the interval at 30
\* after the third and end with the dialog accepted and the token emitted.
SlowDownSetsInterval ==
    [][/\ ScenarioHolds
       /\ (last'.op = "poll" /\ last'.data.error = <<"slow_down">>)
          => dlg' = [dlg EXCEPT !.interval =
                        IF last'.data.interval # <<>> THEN last'.data.interval[1]
                        ELSE dlg.interval + SlowDownStep]]_vars
\* C18 witness: slow_down(30) was answered and the interval is 30.
SlowDownSetsIntervalWitness ==
    /\ last.op = "poll"
    /\ last.data = SlowDown(<<30>>)
    /\ dlg.open
    /\ dlg.interval = 30

\* C19 (the claim as stated): a poll answered with expired_token,
\* access_denied or another error emits nothing and shows the warning, and
\* from then on no poll request is sent for that dialog.
PollErrorEndsPolling ==
    [][/\ (/\ last'.op = "poll"
           /\ last'.data.error # <<>>
           /\ last'.data.error[1] \notin {"authorization_pending", "slow_down"})
          => /\ dlg'.emitted = dlg.emitted
             /\ "warning" \in last'.out
       /\ (dlg.open /\ Suspended(dlg, "warning")) => last'.op # "poll"]_vars

\* C20 (the claim as stated): once the countdown has reached zero no poll
\* answer makes the dialog emit a token.
CountdownForcesExpired ==
    [][(dlg.open /\ dlg.expires_in <= 0 /\ last'.op = "poll")
       => Tokens(dlg') = Tokens(dlg)]_vars

\* The "Generate New Code" button of the dialog has been used:
\* retry_oauth emitted auth_completed with the empty string.
Retried(d) == \E i \in 1..Len(d.emitted) : d.emitted[i] = ""

\* C21 (the claim as stated): the "Generate New Code" button is enabled only
\* once the countdown is at zero, and using it starts a fresh session: the
\* countdown runs again from the new code's lifetime and the dialog, whose
\* device code is the old one, sends no poll request any more.
RetryStartsFreshSession ==
    [][/\ (dlg.open /\ dlg.retry) => dlg.expires_in <= 0
       /\ last'.op = "retry" => (dlg'.timer /\ dlg'.expires_in > 0)
       /\ (dlg.open /\ Retried(dlg)) => last'.op # "poll"]_vars

\* C22: when the request of a poll raises, the error box is shown and
\* nothing else changes: the dialog's interval, countdown, timers, result,
\* emissions and the boxes already open, the profiles, the keyring and git
\* are as before, and the poll timer is still running; closing the error
\* box changes neither the result nor the emissions, and nothing at all of
\* a dialog that stays open.
PollFailureTolerated ==
    [][/\ (last'.op = "poll" /\ last'.fault = NetFault)
          => /\ "error" \in last'.out
             /\ dlg' = Push(dlg, Frame("critical", "", FALSE))
             /\ dlg'.poll_timer
             /\ profiles' = profiles
             /\ kr' = kr
             /\ git' = git
       /\ (/\ last'.op = "close"
           /\ dlg.stack[Len(dlg.stack)].kind = "critical")
          => /\ dlg'.result = dlg.result
             /\ dlg'.emitted = dlg.emitted
             /\ dlg'.open
                => dlg' = [dlg EXCEPT !.stack = SubSeq(@, 1, Len(@) - 1)]]_vars
\* C22 witness: a poll failed after a slow_down had changed the interval
\* and the countdown had started.
PollFailureToleratedWitness ==
    /\ last.op = "poll"
    /\ last.fault = NetFault
    /\ dlg.open
    /\ dlg.poll_timer
    /\ dlg.interval # InitialInterval
    /\ dlg.expires_in < MaxExpires

\* The session of the dialog has ended: a token was delivered (Succeeded),
\* an error answer was shown (Expired, Denied, Failed), the countdown is at
\* zero (Expired), or the dialog has its result and waits for its boxes to
\* close.
SessionEnded(d) ==
    /\ d.open
    /\ \/ Tokens(d) # <<>>
       \/ Suspended(d, "warning")
       \/ d.expires_in <= 0
       \/ d.result # "none"

\* C23 (the claim as stated): once the session of a dialog has ended,
\* neither of its timers runs a callback any more: no countdown tick
\* and no poll request happens.
TicksAfterEndAreNoOps ==
    [][SessionEnded(dlg) => last'.op \notin {"tick", "poll"}]_vars

\* C24 (the claim as stated): when a handler that changes the collection
\* (startup with its merge, add, edit, switch, delete) has returned,
\* self.profiles is what the keyring's index and records describe, also
\* when a keyring call failed while it ran.
MemoryEqualsPersisted ==
    last.op \in {"startup", "add", "edit", "switch", "delete"}
    => Persisted = profiles

\* What the keyring describes after the step.
PersistedNext == load_keyring_profiles(World(<<>>, kr', git', NoFault)).profiles

\* C25 (the claim as stated): a switch or a deletion either runs to its end
\* without an error and leaves self.profiles saved in the keyring, or
\* leaves self.profiles exactly as it was before the handler ran.
NoPartialMutation ==
    [][last'.op \in {"switch", "delete"}
       => IF "error" \in last'.out THEN profiles' = profiles
          ELSE PersistedNext = profiles']_vars

\* C26: when the username GitHub answers for the token is already a key of
\* self.profiles, handle_oauth_completion shows the "already exists" box
\* and nothing else, and self.profiles (the existing profile's token
\* included), the keyring and git are as before.
DuplicateRejected ==
    [][(last'.op = "add" /\ Has(profiles, last'.user))
       => /\ last'.out = {"info"}
          /\ profiles' = profiles
          /\ kr' = kr
          /\ git' = git]_vars
\* C26 witness: the device flow delivered a token for an account whose
\* stored profile has another token and is not the only profile.
DuplicateRejectedWitness ==
    /\ last.op = "add"
    /\ last.out = {"info"}
    /\ last.flag
    /\ Len(profiles) = 2
    /\ Has(profiles, last.user)
    /\ Get(profiles, last.user).token # TokenOf(last.user)

\* C27 (the claim as stated): when a git call of update_git_config failed
\* during an activation (the reject that clears the store, a config write
\* or the approve), git's credential store afterwards is empty or holds the
\* target's credential, and no credential of another account.
WriteThroughConsistent ==
    (/\ last.op \in {"switch", "add", "edit"}
     /\ last.fault.kind = "git"
     /\ last.fault.call \in WriteThroughCalls \cup {"reject_all"})
    => \A v \in Users \ {last.user} : git.cred[v] = <<>>

\* What get_current_profile returns, as a set.
Resolved(P, g) ==
    LET cur == get_current_profile(P, g)
    IN  IF cur = <<>> THEN {} ELSE {cur[1]}

\* C28: when startup has returned, the profiles with is_current = True are
\* exactly what get_current_profile returns for git's global user.name and
\* user.email: that one profile, or no profile at all when it returns
\* None, whatever flags the records in the keyring carried.
StartupResolvesActive ==
    last.op = "startup" => Current(profiles) = Resolved(profiles, git)
\* C28 witness: the keyring's records carried is_current, git's identity
\* matches none of the loaded profiles, and startup left no profile current.
StartupResolvesActiveWitness ==
    /\ last.op = "startup"
    /\ last.flag
    /\ profiles # <<>>
    /\ Resolved(profiles, git) = {}
    /\ Current(profiles) = {}

\* C29: startup on a keyring with records that are not JSON shows no error,
\* and self.profiles holds every username of the index whose record is
\* JSON, in the index's order, with the token, name, email and tag of its
\* record, and no username whose record is not JSON.
MalformedRecordSkipped ==
    [][last'.op = "startup"
       => LET good == SelectSeq(kr.usernames,
                                LAMBDA u : kr.rec[u] # <<>> /\ kr.rec[u][1] # Garbled)
          IN  /\ "error" \notin last'.out
              /\ Keys(profiles') = good
              /\ \A i \in 1..Len(good) :
                   LET r == kr.rec[good[i]][1]
                       p == profiles'[i]
                   IN  /\ p.token = r.token
                       /\ p.name = r.name
                       /\ p.email = r.email
                       /\ p.tag = r.tag]_vars
\* C29 witness: the index listed a username whose record is not JSON, it
\* was skipped and its garbled record is still there, and another username
\* was loaded.
MalformedRecordSkippedWitness ==
    /\ last.op = "startup"
    /\ last.user # ""
    /\ ~Has(profiles, last.user)
    /\ kr.rec[last.user] = <<Garbled>>
    /\ profiles # <<>>

\* C30 (the claim as stated): when a git or keyring call failed while
\* switch_profile or delete_profile (with its fallback activation or its
\* clear_git_config) ran, the handler showed an error.
FailuresReported ==
    (/\ last.op \in {"switch", "delete"}
     /\ last.fault.kind \in {"git", "kr"})
    => "error" \in last.out

\* C31: when the device-code request raises or is answered with another
\* status than 200, add_account shows the error and opens no dialog: no
\* timer is started, the profiles, the keyring and git are as before, and
\* no countdown tick or poll happens until a later add_account succeeds.
FailedRequestOpensNothing ==
    [][/\ (last'.op = "add_account" /\ ~last'.flag)
          => /\ "error" \in last'.out
             /\ ~dlg'.open
             /\ ~dlg'.timer
             /\ ~dlg'.poll_timer
             /\ dlg'.emitted = <<>>
             /\ profiles' = profiles
             /\ kr' = kr
             /\ git' = git
       /\ ~dlg.open => last'.op = "add_account"]_vars
\* C31 witness: the request failed when a profile was already stored.
FailedRequestOpensNothingWitness ==
    /\ last.op = "add_account"
    /\ ~last.flag
    /\ "error" \in last.out
    /\ profiles # <<>>
    /\ ~dlg.open

\* The names handle_oauth_completion may give the profile of account u:
\* GitHub's name, or the username when GitHub has none.
ProfileNames(u) == {IF gh.name # "" THEN gh.name ELSE u : gh \in GitHubInfos}

\* C32 (the claim as stated): when the device flow delivers the token of an
\* account that is not stored and the tag prompt is answered, exactly one
\* profile is appended, with that token, GitHub's name or the username, and
\* the tag; and when no profile was current before, the new profile is the
\* only current one afterwards and git holds its name, email and token.
AddCreatesAndActivates ==
    [][(/\ last'.op = "add"
        /\ last'.flag
        /\ ~Has(profiles, last'.user))
       => /\ Len(profiles') = Len(profiles) + 1
          /\ Keys(profiles') = Append(Keys(profiles), last'.user)
          /\ \A i \in 1..Len(profiles) :
               [profiles'[i] EXCEPT !.is_current = FALSE]
                  = [profiles[i] EXCEPT !.is_current = FALSE]
          /\ LET p == profiles'[Len(profiles')]
             IN  /\ p.token = TokenOf(last'.user)
                 /\ p.name \in ProfileNames(last'.user)
                 /\ p.tag \in TagInputs
                 /\ Current(profiles) = {}
                    => /\ Current(profiles') = {last'.user}
                       /\ git'.name = <<p.name>>
                       /\ git'.email = <<p.email>>
                       /\ git'.cred[last'.user] = <<p.token>>]_vars

\* C33 (the claim as stated): after every handler, git holds for
\* github.com the credential of the profile flagged current: its username
\* with its token.
ActiveFlagMatchesCredential ==
    (running /\ Current(profiles) # {})
    => \A u \in Current(profiles) : git.cred[u] = <<Get(profiles, u).token>>

\* C34 (the claim as stated): with both timers firing as long as they are
\* active, every dialog that is opened sooner or later stops polling, also
\* when every poll is answered with "wait" and the user does nothing.
SessionTerminates == dlg.open ~> ~dlg.poll_timer

\* C35: deleting a profile that is not flagged current removes that profile
\* from self.profiles, its record and index entry from the keyring and its
\* own credential from git, and nothing else: the other profiles with
\* their flags and records, git's user.name, user.email, credential.helper
\* and the other accounts' credentials are as before.
DeleteInactiveFrame ==
    [][(/\ last'.op = "delete"
        /\ ~last'.flag
        /\ last'.fault = NoFault)
       => /\ last'.out = {"success"}
          /\ profiles' = Remove(profiles, last'.user)
          /\ Current(profiles') = Current(profiles)
          /\ kr'.usernames = Keys(Remove(profiles, last'.user))
          /\ kr'.rec = [kr.rec EXCEPT ![last'.user] = <<>>]
          /\ git' = [git EXCEPT !.cred[last'.user] = <<>>]]_vars
\* C35 witness: a profile that was not current was deleted while another
\* profile is current and git holds that one's identity and credential.
DeleteInactiveFrameWitness ==
    /\ last.op = "delete"
    /\ ~last.flag
    /\ last.out = {"success"}
    /\ ~Has(profiles, last.user)
    /\ \E u \in Current(profiles) : ActiveInGit(u)

\* C36: startup only reads from git: after __init__ with its load_profiles
\* and merge_profiles, git's user.name, user.email, credential.helper and
\* stored credentials are what they were, whatever the keyring and git's
\* credential store held.
StartupLeavesGit ==
    [][last'.op = "startup" => git' = git]_vars
\* C36 witness: startup merged or loaded profiles and flagged one as
\* current whose credential git does not hold, with no helper configured.
StartupLeavesGitWitness ==
    /\ last.op = "startup"
    /\ git.helper = <<>>
    /\ \E u \in Current(profiles) : git.cred[u] = <<>>

\* C37: startup never loses an index entry: every username the keyring's
\* index listed before load_profiles ran is still listed in the index after
\* it.
IndexEntriesKept ==
    [][last'.op = "startup" =>
          \A i \in 1..Len(kr.usernames) :
              \E j \in 1..Len(kr'.usernames) : kr'.usernames[j] = kr.usernames[i]]_vars

\* C38: save_profiles followed by load_keyring_profiles returns the
\* collection that was saved: the same usernames in the same order with the
\* same fields, for every collection, the empty one included.
SaveLoadRoundTrip ==
    [][last'.op = "load_keyring_profiles" => profiles' = profiles]_vars

\* An edit of profile u changed nothing but u's name, email and tag.
EditFrame(u) ==
    /\ Keys(profiles') = Keys(profiles)
    /\ \A i \in 1..Len(profiles) :
          IF profiles[i].user = u
          THEN /\ profiles'[i].token = profiles[i].token
               /\ profiles'[i].is_current = profiles[i].is_current
          ELSE profiles'[i] = profiles[i]

\* C39: edit_profile changes only the edited profile's name, email and tag;
\* when that profile is the current one the new name and email are written
\* to git so that get_current_profile still returns it, and when it is not,
\* git is left as it was.
EditWritesThrough ==
    [][last'.op = "edit" =>
          /\ EditFrame(last'.user)
          /\ IF Get(profiles, last'.user).is_current
             THEN get_current_profile(profiles', git') = <<last'.user>>
             ELSE git' = git]_vars

\* C40: the two front-ends implement the same core: from every state, the
\* startup load with its merge, a switch, a delete, the opening of the
\* device-flow dialog and a poll answer leave src/main.py with the profiles,
\* is_current flags, keyring, git state, dialogs shown and device-flow state
\* that src/app.py reaches, whichever external call fails.
FrontEndsAgree ==
    /\ \A f \in FaultPlans :
          LET w == World(profiles, kr, git, f)
          IN  /\ main_save_profiles(w) = save_profiles(w)
              /\ \A pick \in FillAnswers(git) :
                    main_init(World(<<>>, kr, git, f), pick)
                      = init(World(<<>>, kr, git, f), pick)
              /\ \A u \in KeySet(profiles) :
                    /\ main_switch_profile(w, u) = switch_profile(w, u)
                    /\ \A confirm \in BOOLEAN :
                          main_delete_profile(w, u, confirm)
                            = delete_profile(w, u, confirm)
    /\ \A u \in Users, ok \in BOOLEAN : main_add_account(u, ok) = add_account(u, ok)
    /\ \A d \in Dialogs :
          \A data \in PollAnswers(d.account) :
              main_poll_for_token(d, profiles, data) = poll_for_token(d, profiles, data)
\* C40 witness: both front-ends are compared on a store of two profiles, one
\* of them current, whose credential git holds.
FrontEndsAgreeWitness ==
    /\ running
    /\ Len(profiles) = 2
    /\ \E u \in Current(profiles) : git.cred[u] = <<Get(profiles, u).token>>

====
